---- MODULE Spec2Model ----
(***************************************************************************)
(* ChatIndexer (js/chat-indexer.js): the retrieval engine of ChatHub.      *)
(* A conversation is turned into a transcript, split into overlapping      *)
(* chunks, indexed by keyword, ranked by TF-IDF and assembled into a       *)
(* context string of bounded size.                                         *)
(*                                                                         *)
(* Text is a sequence of one-character strings.  Offsets are 0-based as in *)
(* the source; substring(s, a, b) is the half-open slice [a, b).           *)
(***************************************************************************)
EXTENDS Integers, Sequences, FiniteSets, TLC

(* ---------------------------------------------------------------------- *)
(* Configuration (constructor)                                             *)
(* ---------------------------------------------------------------------- *)
CHUNK_SIZE == 800
CHUNK_OVERLAP == 150
TOP_K == 4
MAX_CONTEXT_CHARS == 3000
maxIterations == 5000
MinChunkChars == 30
TailMargin == 30
BreakWindow == 100
TruncationSlack == 10
MinRemaining == 50

STOP_WORDS ==
  {<<"t", "h", "e">>, <<"a">>, <<"a", "n">>, <<"a", "n", "d">>, <<"o", "r">>,
   <<"b", "u", "t">>, <<"i", "n">>, <<"o", "n">>, <<"a", "t">>, <<"t", "o">>,
   <<"f", "o", "r">>, <<"o", "f">>, <<"w", "i", "t", "h">>, <<"b", "y">>, <<"i", "s">>,
   <<"a", "r", "e">>, <<"w", "a", "s">>, <<"w", "e", "r", "e">>, <<"b", "e">>,
   <<"b", "e", "e", "n">>, <<"b", "e", "i", "n", "g">>, <<"h", "a", "v", "e">>,
   <<"h", "a", "s">>, <<"h", "a", "d">>, <<"d", "o">>, <<"d", "o", "e", "s">>,
   <<"d", "i", "d">>, <<"w", "i", "l", "l">>, <<"w", "o", "u", "l", "d">>,
   <<"c", "o", "u", "l", "d">>, <<"s", "h", "o", "u", "l", "d">>, <<"m", "a", "y">>,
   <<"m", "i", "g", "h", "t">>, <<"m", "u", "s", "t">>, <<"t", "h", "i", "s">>,
   <<"t", "h", "a", "t">>, <<"t", "h", "e", "s", "e">>, <<"t", "h", "o", "s", "e">>,
   <<"i", "t">>, <<"i", "t", "s">>, <<"y", "o", "u">>, <<"y", "o", "u", "r">>, <<"w", "e">>,
   <<"o", "u", "r">>, <<"t", "h", "e", "y">>, <<"t", "h", "e", "i", "r">>, <<"h", "e">>,
   <<"s", "h", "e">>, <<"h", "i", "s">>, <<"h", "e", "r">>, <<"i">>, <<"m", "y">>,
   <<"m", "e">>, <<"c", "a", "n">>, <<"j", "u", "s", "t">>, <<"s", "o">>, <<"a", "s">>,
   <<"i", "f">>, <<"t", "h", "e", "n">>, <<"t", "h", "a", "n">>, <<"w", "h", "e", "n">>,
   <<"w", "h", "a", "t">>, <<"w", "h", "i", "c", "h">>, <<"w", "h", "o">>, <<"h", "o", "w">>,
   <<"a", "l", "l">>, <<"e", "a", "c", "h">>, <<"e", "v", "e", "r", "y">>,
   <<"b", "o", "t", "h">>, <<"f", "e", "w">>, <<"m", "o", "r", "e">>, <<"m", "o", "s", "t">>,
   <<"o", "t", "h", "e", "r">>, <<"s", "o", "m", "e">>, <<"s", "u", "c", "h">>, <<"n", "o">>,
   <<"n", "o", "t">>, <<"o", "n", "l", "y">>, <<"s", "a", "m", "e">>, <<"i", "n", "t", "o">>,
   <<"f", "r", "o", "m">>, <<"u", "p">>, <<"d", "o", "w", "n">>, <<"o", "u", "t">>,
   <<"a", "b", "o", "u", "t">>, <<"a", "f", "t", "e", "r">>, <<"b", "e", "f", "o", "r", "e">>,
   <<"b", "e", "t", "w", "e", "e", "n">>, <<"t", "h", "r", "o", "u", "g", "h">>,
   <<"d", "u", "r", "i", "n", "g">>, <<"a", "b", "o", "v", "e">>, <<"b", "e", "l", "o", "w">>}

(* ---------------------------------------------------------------------- *)
(* Characters and strings                                                  *)
(* ---------------------------------------------------------------------- *)
UpperSeq ==
  <<"A", "B", "C", "D", "E", "F", "G", "H", "I", "J", "K", "L", "M",
    "N", "O", "P", "Q", "R", "S", "T", "U", "V", "W", "X", "Y", "Z">>
LowerSeq ==
  <<"a", "b", "c", "d", "e", "f", "g", "h", "i", "j", "k", "l", "m",
    "n", "o", "p", "q", "r", "s", "t", "u", "v", "w", "x", "y", "z">>
Lower == {LowerSeq[i] : i \in 1..26}
Upper == {UpperSeq[i] : i \in 1..26}
Digit == {"0", "1", "2", "3", "4", "5", "6", "7", "8", "9"}
\* the characters matched by \s and removed by trim()
WS == {" ", "\n", "\t", "\r"}

Min(a, b) == IF a < b THEN a ELSE b
Max(a, b) == IF a > b THEN a ELSE b

\* String.prototype.toLowerCase on one character
toLowerCase(c) ==
  IF c \in Upper THEN LowerSeq[CHOOSE i \in 1..26 : UpperSeq[i] = c] ELSE c

\* String.prototype.substring(a, b) for 0 <= a <= b; b is clamped to the length
substring(s, a, b) == SubSeq(s, a + 1, Min(b, Len(s)))

\* String.prototype.trim
trim(s) ==
  LET n == Len(s)
      ink == {i \in 1..n : s[i] \notin WS}
  IN  IF ink = {} THEN <<>>
      ELSE LET first == CHOOSE i \in 1..n :
                          s[i] \notin WS /\ \A j \in 1..(i - 1) : s[j] \in WS
               last_ == CHOOSE i \in 1..n :
                          s[i] \notin WS /\ \A j \in (i + 1)..n : s[j] \in WS
           IN  SubSeq(s, first, last_)

\* String.prototype.lastIndexOf(bp, fromIndex): the greatest 0-based position
\* p <= fromIndex at which bp occurs in s, or -1
lastIndexOf(s, bp, fromIndex) ==
  LET lim == Min(fromIndex, Len(s) - Len(bp))
      occurs(p) == \A k \in 1..Len(bp) : s[p + k] = bp[k]
      hits == {p \in 0..lim : occurs(p)}
  IN  IF hits = {} THEN -1
      ELSE CHOOSE p \in hits : \A q \in hits : q <= p

(* ---------------------------------------------------------------------- *)
(* extractKeywords                                                         *)
(* ---------------------------------------------------------------------- *)
\* text.toLowerCase().replace(/[^a-z0-9\s]/g, ' '), one character
normalise(c) ==
  LET l == toLowerCase(c)
  IN  IF l \in Lower \cup Digit \cup WS THEN l ELSE " "

\* faulty variant of isKeyword: tokens of digits only are kept
isKeywordKeepsNumbers(word) ==
  /\ Len(word) > 2
  /\ word \notin STOP_WORDS

\* the filter of extractKeywords
isKeyword(word) ==
  /\ Len(word) > 2
  /\ word \notin STOP_WORDS
  /\ ~(\A k \in 1..Len(word) : word[k] \in Digit)

\* term -> number of occurrences among the tokens of text
extractKeywords(text) ==
  LET n == Len(text)
      norm == SubSeq([i \in 1..n |-> normalise(text[i])], 1, n)
      \* split(/\s+/): the maximal runs of non-whitespace characters
      starts == {i \in 1..n : norm[i] \notin WS /\ (i = 1 \/ norm[i - 1] \in WS)}
      stops == {j \in 1..n : norm[j] \notin WS /\ (j = n \/ norm[j + 1] \in WS)}
      stop(i) == CHOOSE j \in stops : j >= i /\ \A k \in stops : k >= i => j <= k
      tokens == {<<i, SubSeq(norm, i, stop(i))>> : i \in starts}
      words == {t \in tokens : isKeyword(t[2])}
  IN  [w \in {t[2] : t \in words} |-> Cardinality({t \in words : t[2] = w})]

(* ---------------------------------------------------------------------- *)
(* createChunks                                                            *)
(* ---------------------------------------------------------------------- *)
UserMarker == <<"\n", "\n", "[", "U", "S", "E", "R", "]", ":">>
AssistantMarker ==
  <<"\n", "\n", "[", "A", "S", "S", "I", "S", "T", "A", "N", "T", "]", ":">>
SentenceMarker == <<".", " ">>
NewlineMarker == <<"\n">>
breakPoints == <<UserMarker, AssistantMarker, SentenceMarker, NewlineMarker>>

\* the for-loop over breakPoints, from the i-th marker on
RECURSIVE scanBreakPoints(_, _, _, _, _)
scanBreakPoints(content, end, searchStart, i, bestBreak) ==
  IF i > Len(breakPoints) THEN bestBreak
  ELSE LET bp == breakPoints[i]
           pos == lastIndexOf(content, bp, end)
       IN  IF pos > searchStart /\ pos > bestBreak
           THEN scanBreakPoints(content, end, searchStart, i + 1,
                                pos + (IF bp = SentenceMarker THEN 2 ELSE Len(bp)))
           ELSE scanBreakPoints(content, end, searchStart, i + 1, bestBreak)

\* the end offset of the slice that starts at start
sliceEnd(content, start) ==
  LET end == Min(start + CHUNK_SIZE, Len(content))
  IN  IF end < Len(content)
      THEN LET searchStart == Max(start + CHUNK_SIZE - BreakWindow, start)
               bestBreak == scanBreakPoints(content, end, searchStart, 1, -1)
           IN  IF bestBreak > start THEN bestBreak ELSE end
      ELSE end

\* faulty variants of pushChunk: a threshold one too high, and a test of the
\* slice before it is trimmed
pushChunkOffByOne(stored, content, start, end) ==
  LET chunkText == trim(substring(content, start, end))
  IN  IF Len(chunkText) > MinChunkChars + 1
      THEN Append(stored, [id |-> Len(stored), text |-> chunkText,
                           start |-> start, end |-> end,
                           keywords |-> extractKeywords(chunkText)])
      ELSE stored

pushChunkUntrimmedTest(stored, content, start, end) ==
  LET chunkText == trim(substring(content, start, end))
  IN  IF Len(substring(content, start, end)) > MinChunkChars
      THEN Append(stored, [id |-> Len(stored), text |-> chunkText,
                           start |-> start, end |-> end,
                           keywords |-> extractKeywords(chunkText)])
      ELSE stored

\* faulty variant of pushChunk: the start is worked back from the end
pushChunkStartFromEnd(stored, content, start, end) ==
  LET chunkText == trim(substring(content, start, end))
  IN  IF Len(chunkText) > MinChunkChars
      THEN Append(stored, [id |-> Len(stored), text |-> chunkText,
                           start |-> Max(end - CHUNK_SIZE, 0), end |-> end,
                           keywords |-> extractKeywords(chunkText)])
      ELSE stored

\* faulty variant of pushChunk: ids are counted from 1
pushChunkOneBased(stored, content, start, end) ==
  LET chunkText == trim(substring(content, start, end))
  IN  IF Len(chunkText) > MinChunkChars
      THEN Append(stored, [id |-> Len(stored) + 1, text |-> chunkText,
                           start |-> start, end |-> end,
                           keywords |-> extractKeywords(chunkText)])
      ELSE stored

\* the chunk list after the slice [start, end) has been looked at: the slice
\* is stored, trimmed, when its trimmed text is longer than MinChunkChars
pushChunk(stored, content, start, end) ==
  LET chunkText == trim(substring(content, start, end))
  IN  IF Len(chunkText) > MinChunkChars
      THEN Append(stored, [id |-> Len(stored), text |-> chunkText,
                           start |-> start, end |-> end,
                           keywords |-> extractKeywords(chunkText)])
      ELSE stored

\* faulty variant of chunkStep: the loop is left by its while-condition only
chunkStepNoEarlyBreak(content, st) ==
  IF ~st.running THEN st
  ELSE IF ~(st.start < Len(content) /\ st.iterations < maxIterations)
  THEN [st EXCEPT !.running = FALSE]
  ELSE LET start == st.start
           end == sliceEnd(content, start)
           newStart == end - CHUNK_OVERLAP
           next == Max(start + 1, newStart)
       IN  [start |-> next,
            iterations |-> st.iterations + 1,
            chunks |-> pushChunk(st.chunks, content, start, end),
            running |-> TRUE]

\* faulty variant of chunkStep: the overlap is added to the end
chunkStepSkipsAhead(content, st) ==
  IF ~st.running THEN st
  ELSE IF ~(st.start < Len(content) /\ st.iterations < maxIterations)
  THEN [st EXCEPT !.running = FALSE]
  ELSE LET start == st.start
           end == sliceEnd(content, start)
           newStart == end + CHUNK_OVERLAP
           next == Max(start + 1, newStart)
       IN  [start |-> next,
            iterations |-> st.iterations + 1,
            chunks |-> pushChunk(st.chunks, content, start, end),
            running |-> ~(next >= Len(content) - TailMargin)]

\* faulty variant of chunkStep: twice the overlap is taken back
chunkStepWideOverlap(content, st) ==
  IF ~st.running THEN st
  ELSE IF ~(st.start < Len(content) /\ st.iterations < maxIterations)
  THEN [st EXCEPT !.running = FALSE]
  ELSE LET start == st.start
           end == sliceEnd(content, start)
           newStart == end - 2 * CHUNK_OVERLAP
           next == Max(start + 1, newStart)
       IN  [start |-> next,
            iterations |-> st.iterations + 1,
            chunks |-> pushChunk(st.chunks, content, start, end),
            running |-> ~(next >= Len(content) - TailMargin)]

\* one pass of the while-loop of createChunks over the loop variables; a loop
\* that has exited stays as it is
chunkStep(content, st) ==
  IF ~st.running THEN st
  ELSE IF ~(st.start < Len(content) /\ st.iterations < maxIterations)
  THEN [st EXCEPT !.running = FALSE]
  ELSE LET start == st.start
           end == sliceEnd(content, start)
           newStart == end - CHUNK_OVERLAP
           next == Max(start + 1, newStart)
       IN  [start |-> next,
            iterations |-> st.iterations + 1,
            chunks |-> pushChunk(st.chunks, content, start, end),
            running |-> ~(next >= Len(content) - TailMargin)]

\* n passes of the loop (halving keeps the evaluation shallow)
RECURSIVE chunkLoop(_, _, _)
chunkLoop(content, st, n) ==
  IF n = 0 \/ ~st.running THEN st
  ELSE IF n = 1 THEN chunkStep(content, st)
  ELSE chunkLoop(content, chunkLoop(content, st, n \div 2), n - (n \div 2))

createChunks(content) ==
  chunkLoop(content,
            [start |-> 0, iterations |-> 0, chunks |-> <<>>, running |-> TRUE],
            maxIterations + 1).chunks

(* ---------------------------------------------------------------------- *)
(* indexConversation: transcript and inverted index                        *)
(* ---------------------------------------------------------------------- *)
RoleUser == <<"U", "S", "E", "R">>
RoleAssistant == <<"A", "S", "S", "I", "S", "T", "A", "N", "T">>

\* `[${role}]: ${msg.content}`
messageText(msg) ==
  <<"[">> \o (IF msg.role = "user" THEN RoleUser ELSE RoleAssistant)
          \o <<"]", ":", " ">> \o msg.content

\* messages.map(...).join('\n\n') for a non-empty list
RECURSIVE joinFrom(_, _)
joinFrom(msgs, i) ==
  IF i = Len(msgs) THEN messageText(msgs[i])
  ELSE messageText(msgs[i]) \o <<"\n", "\n">> \o joinFrom(msgs, i + 1)

conversationTextOf(msgs) == joinFrom(msgs, 1)

\* Map.get(key) || fallback
getOr(map, key, fallback) == IF key \in DOMAIN map THEN map[key] ELSE fallback

\* faulty variant of indexStep: the document frequency grows by the number of
\* occurrences in the chunk
indexStepCountsOccurrences(cs, st) ==
  IF st.i > Len(cs) THEN st
  ELSE LET chunk == cs[st.i]
           kws == DOMAIN chunk.keywords
           index == st.keywordIndex
           freq == st.documentFrequency
       IN  [i |-> st.i + 1,
            keywordIndex |->
              [w \in kws |-> Append(getOr(index, w, <<>>), chunk.id)] @@ index,
            documentFrequency |->
              [w \in kws |-> getOr(freq, w, 0) + chunk.keywords[w]] @@ freq]

\* one pass of the loop of buildKeywordIndex: the chunk at position st.i is
\* entered into the two maps; past the last chunk nothing changes
indexStep(cs, st) ==
  IF st.i > Len(cs) THEN st
  ELSE LET chunk == cs[st.i]
           kws == DOMAIN chunk.keywords
           index == st.keywordIndex
           freq == st.documentFrequency
       IN  [i |-> st.i + 1,
            keywordIndex |->
              [w \in kws |-> Append(getOr(index, w, <<>>), chunk.id)] @@ index,
            documentFrequency |->
              [w \in kws |-> getOr(freq, w, 0) + 1] @@ freq]

\* n passes of the loop (halving keeps the evaluation shallow)
RECURSIVE indexLoop(_, _, _)
indexLoop(cs, st, n) ==
  IF n = 0 \/ st.i > Len(cs) THEN st
  ELSE IF n = 1 THEN indexStep(cs, st)
  ELSE indexLoop(cs, indexLoop(cs, st, n \div 2), n - (n \div 2))

buildKeywordIndex(cs, index, freq) ==
  LET done == indexLoop(cs, [i |-> 1, keywordIndex |-> index,
                             documentFrequency |-> freq], Len(cs))
  IN  [keywordIndex |-> done.keywordIndex,
       documentFrequency |-> done.documentFrequency]

\* the engine state left by a call of indexConversation that passes its guard
rebuild(msgs) ==
  LET text == conversationTextOf(msgs)
      cs == createChunks(text)
      maps == buildKeywordIndex(cs, <<>>, <<>>)
  IN  [conversationText |-> text,
       chunks |-> cs,
       keywordIndex |-> maps.keywordIndex,
       documentFrequency |-> maps.documentFrequency]

(* ---------------------------------------------------------------------- *)
(* Conversations, queries and result sizes explored                        *)
(* ---------------------------------------------------------------------- *)
MaxMsgs == 2
MaxTopK == 2
\* ChatApp: invocations of sendMessage side by side, chats handed out,
\* events admitted in all, and loads and deletions in progress
MaxCalls == 2
MaxChats == 2
MaxEvents == 3
MaxPending == 1

\* n characters of the pattern p repeated
Fill(p, n) == [i \in 1..n |-> p[((i - 1) % Len(p)) + 1]]

WordRust == <<"r", "u", "s", "t", " ">>
WordTail == <<"t", "a", "i", "l", " ">>
FullStop == <<".", " ">>

mHi == [role |-> "user", content |-> <<"h", "i">>]
mRust ==
  [role |-> "user",
   content |-> <<"r", "u", "s", "t", " ", "o", "w", "n", "e", "r", "s", "h", "i", "p", " ", "b", "o", "r", "r", "o", "w", "e", "d">>]
mReply ==
  [role |-> "assistant",
   content |->
     <<"T", "h", "e", " ", "b", "o", "r", "r", "o", "w", " ", "c", "h", "e", "c", "k", "e", "r", " ", "e", "n", "f", "o", "r", "c", "e", "s", " ", "i", "t", ".", " ">> \o
     <<"V", "a", "l", "u", "e", "s", " ", "m", "o", "v", "e", " ", "o", "n", "c", "e">>]
Palette == {mHi, mReply}

\* three sentences that end 750 characters after a slice start, then a tail
mSentences ==
  [role |-> "user",
   content |-> Fill(WordRust, 740) \o FullStop \o Fill(WordRust, 598) \o FullStop \o
               Fill(WordRust, 598) \o FullStop \o Fill(WordRust, 440) \o Fill(WordTail, 159)]
\* a first word, then text with no boundary marker at all
mUnbroken ==
  [role |-> "user",
   content |-> <<"o", "w", "n", "e", "r", "s", "h", "i", "p", ":", " ">> \o
               Fill(WordRust, 2440) \o Fill(WordTail, 159)]
\* two words separated by a long run of blanks
mPadded ==
  [role |-> "user",
   content |-> <<"g", "o">> \o Fill(<<" ">>, 997) \o <<"a", "b", "c">>]

\* some text, a run of blanks longer than a slice, and some text again
mGap ==
  [role |-> "user",
   content |-> Fill(WordRust, 49) \o Fill(<<" ">>, 1500) \o Fill(WordTail, 49)]

\* a sentence that ends with a blank and a line break, 750 characters into the
\* transcript
mAdjacent ==
  [role |-> "user",
   content |-> Fill(WordRust, 740) \o FullStop \o <<"\n">> \o Fill(WordTail, 200)]

\* a sentence whose closing ". " begins exactly CHUNK_SIZE characters into the
\* transcript
mAtEnd ==
  [role |-> "user",
   content |-> Fill(WordRust, 792) \o FullStop \o Fill(WordTail, 100)]

RECURSIVE SeqsUpTo(_, _)
SeqsUpTo(S, n) ==
  IF n = 0 THEN {<<>>}
  ELSE LET shorter == SeqsUpTo(S, n - 1)
       IN  shorter \cup {Append(s, x) : s \in shorter, x \in S}

Conversations ==
  SeqsUpTo(Palette, MaxMsgs)
    \cup {<<mRust>>, <<mSentences>>, <<mUnbroken>>, <<mPadded>>, <<mGap>>, <<mAdjacent>>, <<mAtEnd>>}

\* the argument of indexConversation: a list, or absent (null / undefined)
Absent == [present |-> FALSE, list |-> <<>>]
Arguments == {Absent} \cup {[present |-> TRUE, list |-> m] : m \in Conversations}

QueryBoth == <<"R", "u", "s", "t", " ", "o", "w", "n", "e", "r", "s", "h", "i", "p", "?">>
QueryOne == <<"o", "w", "n", "e", "r", "s", "h", "i", "p">>
QueryStopWords == <<"t", "h", "e", " ", "o", "f", " ", "a", "n", "d">>
QueryNoise == <<"i", "s", " ", "i", "t", " ", "4", "2">>
QueryMixed == <<"B", "o", "r", "r", "o", "w", " ", "2", "0", "2", "4", " ", "b", "o", "r", "r", "o", "w", ",", " ", "x", "8", "6", " ", "t", "h", "e", " ", "g", "o">>
Queries == {QueryBoth, QueryOne, QueryStopWords, QueryNoise, QueryMixed}
TopKs == 0..MaxTopK

\* rebuild is a function of the message list alone; it is evaluated once per
\* conversation and looked up afterwards
RebuiltTable == {<<m, rebuild(m)>> : m \in Conversations \ {<<>>}}
Rebuilt(m) == (CHOOSE entry \in RebuiltTable : entry[1] = m)[2]

(* ---------------------------------------------------------------------- *)
(* search and getContextForQuery                                           *)
(* ---------------------------------------------------------------------- *)
\* floor(1000 * ln n) for n = 1..200: Math.log(N / df) is LnTable[N] - LnTable[df]
\* in thousandths, positive exactly when N > df
LnTable ==
  <<0, 693, 1098, 1386, 1609, 1791, 1945, 2079, 2197, 2302, 2397, 2484, 2564, 2639, 2708, 2772,
    2833, 2890, 2944, 2995, 3044, 3091, 3135, 3178, 3218, 3258, 3295, 3332, 3367, 3401, 3433,
    3465, 3496, 3526, 3555, 3583, 3610, 3637, 3663, 3688, 3713, 3737, 3761, 3784, 3806, 3828,
    3850, 3871, 3891, 3912, 3931, 3951, 3970, 3988, 4007, 4025, 4043, 4060, 4077, 4094, 4110,
    4127, 4143, 4158, 4174, 4189, 4204, 4219, 4234, 4248, 4262, 4276, 4290, 4304, 4317, 4330,
    4343, 4356, 4369, 4382, 4394, 4406, 4418, 4430, 4442, 4454, 4465, 4477, 4488, 4499, 4510,
    4521, 4532, 4543, 4553, 4564, 4574, 4584, 4595, 4605, 4615, 4624, 4634, 4644, 4653, 4663,
    4672, 4682, 4691, 4700, 4709, 4718, 4727, 4736, 4744, 4753, 4762, 4770, 4779, 4787, 4795,
    4804, 4812, 4820, 4828, 4836, 4844, 4852, 4859, 4867, 4875, 4882, 4890, 4897, 4905, 4912,
    4919, 4927, 4934, 4941, 4948, 4955, 4962, 4969, 4976, 4983, 4990, 4997, 5003, 5010, 5017,
    5023, 5030, 5036, 5043, 5049, 5056, 5062, 5068, 5075, 5081, 5087, 5093, 5099, 5105, 5111,
    5117, 5123, 5129, 5135, 5141, 5147, 5153, 5159, 5164, 5170, 5176, 5181, 5187, 5192, 5198,
    5204, 5209, 5214, 5220, 5225, 5231, 5236, 5241, 5247, 5252, 5257, 5262, 5267, 5272, 5278,
    5283, 5288, 5293, 5298>>

\* faulty variant of idf: the quotient upside down
idfInverted(N, df) == LnTable[df] - LnTable[N]

\* faulty variant of idf: ln((N + 1) / df)
idfSmoothed(N, df) == LnTable[N + 1] - LnTable[df]

idf(N, df) == LnTable[N] - LnTable[df]

VARIABLES
  chunks,             \* this.chunks
  keywordIndex,       \* this.keywordIndex: term -> chunk ids
  documentFrequency,  \* this.documentFrequency: term -> number of chunks
  isIndexed,          \* this.isIndexed
  conversationText,   \* the transcript cut by the latest rebuild
  last,               \* the latest call, its arguments and what it returned
  messages,           \* ChatApp: this.messages
  currentChatId,      \* ChatApp: this.currentChatId
  isLoading,          \* ChatApp: this.isLoading
  savedChats,             \* what chatStorage holds: the chats by id
  calls,              \* the invocations of sendMessage in progress
  pending,            \* the invocations of loadChatById, deleteChatById in progress
  events           \* the number of user events handled: questions admitted,
                      \* chats started, loaded and deleted

engine == <<chunks, keywordIndex, documentFrequency, isIndexed, conversationText>>
app == <<messages, currentChatId, isLoading, savedChats, calls, pending, events>>
vars == <<chunks, keywordIndex, documentFrequency, isIndexed, conversationText, last,
          messages, currentChatId, isLoading, savedChats, calls, pending, events>>

\* Array.prototype.slice(begin) with one argument
sliceFrom(arr, begin) ==
  LET k == IF begin < 0 THEN Max(Len(arr) + begin, 0) ELSE Min(begin, Len(arr))
  IN  SubSeq(arr, k + 1, Len(arr))

\* the sum of f over the finite set S
RECURSIVE sumOver(_, _)
sumOver(S, f) ==
  IF S = {} THEN 0
  ELSE LET x == CHOOSE y \in S : TRUE
       IN  f[x] + sumOver(S \ {x}, f)

\* the score of one chunk before the recency boost, in thousandths
rawScore(chunk, queryKeywords, N) ==
  LET present == {w \in DOMAIN queryKeywords : w \in DOMAIN chunk.keywords}
      term == [w \in present |->
                 chunk.keywords[w] * idf(N, getOr(documentFrequency, w, 1))
                                   * queryKeywords[w]]
  IN  sumOver(present, term)

\* faulty variant of boostedScore: the recency boost is left out
boostedScoreNoRecency(chunk, queryKeywords, N) ==
  rawScore(chunk, queryKeywords, N) * (10 * N)

\* score * recencyBoost, times 10 * N to stay in the integers:
\* 1 + (id / N) * 0.3 = (10 * N + 3 * id) / (10 * N)
boostedScore(chunk, queryKeywords, N) ==
  rawScore(chunk, queryKeywords, N) * (10 * N + 3 * chunk.id)

\* faulty variant of isScored: a zero score is kept
isScoredOrZero(score) == score >= 0

\* if (score > 0) scores.set(chunk.id, score)
isScored(score) == score > 0

\* the items of the set S in the order given by before, a strict total order
\* on S given as the set of its pairs <<earlier, later>>
ordered(S, before) ==
  LET ranked == {<<x, Cardinality({y \in S : <<y, x>> \in before})>> : x \in S}
  IN  [r \in 1..Cardinality(S) |-> (CHOOSE p \in ranked : p[2] = r - 1)[1]]

\* faulty variant of search: the chunks picked are returned in score order,
\* without the final sort by position
searchInScoreOrder(query, topK) ==
  IF ~isIndexed \/ Len(chunks) = 0 THEN <<>>
  ELSE
    LET queryKeywords == extractKeywords(query)
    IN  IF DOMAIN queryKeywords = {}
        THEN sliceFrom(chunks, -topK)
        ELSE
          LET N == Len(chunks)
              score == SubSeq([i \in 1..N |-> boostedScore(chunks[i], queryKeywords, N)],
                              1, N)
              scores == {i \in 1..N : isScored(score[i])}
              byScore(i, j) == score[i] > score[j] \/ (score[i] = score[j] /\ i < j)
              sorted == ordered(scores, {p \in scores \X scores : byScore(p[1], p[2])})
          IN  [r \in 1..Min(topK, Len(sorted)) |-> chunks[sorted[r]]]

search(query, topK) ==
  IF ~isIndexed \/ Len(chunks) = 0 THEN <<>>
  ELSE
    LET queryKeywords == extractKeywords(query)
    IN  IF DOMAIN queryKeywords = {}
        THEN sliceFrom(chunks, -topK)
        ELSE
          LET N == Len(chunks)
              score == SubSeq([i \in 1..N |-> boostedScore(chunks[i], queryKeywords, N)],
                              1, N)
              \* scores: the chunks entered in the score map, in insertion order
              scores == {i \in 1..N : isScored(score[i])}
              \* sort((a, b) => b[1] - a[1]): descending score, equal scores
              \* keep their insertion order
              byScore(i, j) == score[i] > score[j] \/ (score[i] = score[j] /\ i < j)
              sorted == ordered(scores, {p \in scores \X scores : byScore(p[1], p[2])})
              picked == {sorted[r] : r \in 1..Min(topK, Len(sorted))}
              \* sort((a, b) => a.start - b.start)
              byStart(i, j) ==
                \/ chunks[i].start < chunks[j].start
                \/ chunks[i].start = chunks[j].start /\ byScore(i, j)
              sortedChunks == ordered(picked, {p \in picked \X picked : byStart(p[1], p[2])})
          IN  [r \in 1..Len(sortedChunks) |-> chunks[sortedChunks[r]]]

Ellipsis == <<".", ".", ".">>
Continued == <<"\n", ".", ".", ".", "\n">>
BlankLine == <<"\n", "\n">>

\* faulty variant of truncated: the slack is not taken off
truncatedNoSlack(context, chunk) ==
  LET remaining == MAX_CONTEXT_CHARS - Len(context)
  IN  IF remaining > MinRemaining
      THEN context \o Continued \o substring(chunk.text, 0, remaining) \o Ellipsis
      ELSE context

\* faulty variant of truncated: the cut piece is not marked at its end
truncatedNoEllipsis(context, chunk) ==
  LET remaining == MAX_CONTEXT_CHARS - Len(context) - TruncationSlack
  IN  IF remaining > MinRemaining
      THEN context \o Continued \o substring(chunk.text, 0, remaining)
      ELSE context

\* the context once the chunk no longer fits: a cut piece of it, or nothing
truncated(context, chunk) ==
  LET remaining == MAX_CONTEXT_CHARS - Len(context) - TruncationSlack
  IN  IF remaining > MinRemaining
      THEN context \o Continued \o substring(chunk.text, 0, remaining) \o Ellipsis
      ELSE context

\* the for-loop of getContextForQuery from the i-th chunk on
RECURSIVE assemble(_, _, _)
assemble(relevantChunks, i, context) ==
  IF i > Len(relevantChunks) THEN context
  ELSE LET chunk == relevantChunks[i]
       IN  IF Len(context) + Len(chunk.text) > MAX_CONTEXT_CHARS
           THEN truncated(context, chunk)
           ELSE assemble(relevantChunks, i + 1,
                         context \o (IF context # <<>> THEN BlankLine ELSE <<>>)
                                 \o chunk.text)

getContextForQuery(query) ==
  LET relevantChunks == search(query, TOP_K)
  IN  IF Len(relevantChunks) = 0 THEN <<>>
      ELSE assemble(relevantChunks, 1, <<>>)

(* ---------------------------------------------------------------------- *)
(* The engine as a state machine                                           *)
(* ---------------------------------------------------------------------- *)
\* last is the latest call: its name and arguments, what it returned, and for
\* a rebuild the number of chunks held before it (prior)
NoChat == 0
Idle == [pc |-> "idle", text |-> <<>>, ragContext |-> <<>>, fullResponse |-> <<>>,
         body |-> <<>>, queried |-> FALSE, chat |-> NoChat, at |-> 0]

\* the fields of ChatApp after its constructor, nothing in progress
AppNew ==
  /\ messages = <<>>
  /\ currentChatId = NoChat
  /\ isLoading = FALSE
  /\ calls = [c \in 1..MaxCalls |-> Idle]
  /\ pending = {}
  /\ events = 0

NoCall ==
  [op |-> "new", present |-> FALSE, length |-> 0, query |-> <<>>, topK |-> 0,
   ret |-> 0, result |-> <<>>, context |-> <<>>, prior |-> 0]

Init ==
  /\ chunks = <<>>
  /\ keywordIndex = <<>>
  /\ documentFrequency = <<>>
  /\ isIndexed = FALSE
  /\ conversationText = <<>>
  /\ last = NoCall
  /\ AppNew
  /\ savedChats = <<>>

\* faulty variant of IndexConversation: the count is read before the rebuild
IndexConversationStaleCount(arg) ==
  /\ IF ~arg.present \/ Len(arg.list) = 0
       THEN /\ last' = [NoCall EXCEPT !.op = "indexConversation", !.present = arg.present,
                                      !.ret = 0]
            /\ UNCHANGED engine
       ELSE LET built == Rebuilt(arg.list)
            IN  /\ chunks' = built.chunks
                /\ keywordIndex' = built.keywordIndex
                /\ documentFrequency' = built.documentFrequency
                /\ conversationText' = built.conversationText
                /\ isIndexed' = TRUE
                /\ last' = [NoCall EXCEPT !.op = "indexConversation", !.present = TRUE,
                                          !.length = Len(arg.list),
                                          !.ret = Len(chunks),
                                          !.prior = Len(chunks)]
  /\ UNCHANGED app

\* faulty variant of IndexConversation: the two maps are not emptied before
\* the chunks are entered
IndexConversationNoReset(arg) ==
  /\ IF ~arg.present \/ Len(arg.list) = 0
       THEN /\ last' = [NoCall EXCEPT !.op = "indexConversation", !.present = arg.present,
                                      !.ret = 0]
            /\ UNCHANGED engine
       ELSE LET built == Rebuilt(arg.list)
                maps == buildKeywordIndex(built.chunks, keywordIndex, documentFrequency)
            IN  /\ chunks' = built.chunks
                /\ keywordIndex' = maps.keywordIndex
                /\ documentFrequency' = maps.documentFrequency
                /\ conversationText' = built.conversationText
                /\ isIndexed' = TRUE
                /\ last' = [NoCall EXCEPT !.op = "indexConversation", !.present = TRUE,
                                          !.length = Len(arg.list),
                                          !.ret = Len(built.chunks),
                                          !.prior = Len(chunks)]
  /\ UNCHANGED app

\* faulty variant of IndexConversation: the flag is raised before the guard
IndexConversationFlagsEmpty(arg) ==
  /\ IF ~arg.present \/ Len(arg.list) = 0
       THEN /\ last' = [NoCall EXCEPT !.op = "indexConversation", !.present = arg.present,
                                      !.ret = 0]
            /\ isIndexed' = TRUE
            /\ UNCHANGED <<chunks, keywordIndex, documentFrequency, conversationText>>
       ELSE LET built == Rebuilt(arg.list)
            IN  /\ chunks' = built.chunks
                /\ keywordIndex' = built.keywordIndex
                /\ documentFrequency' = built.documentFrequency
                /\ conversationText' = built.conversationText
                /\ isIndexed' = TRUE
                /\ last' = [NoCall EXCEPT !.op = "indexConversation", !.present = TRUE,
                                          !.length = Len(arg.list),
                                          !.ret = Len(built.chunks),
                                          !.prior = Len(chunks)]
  /\ UNCHANGED app

IndexConversation(arg) ==
  /\ IF ~arg.present \/ Len(arg.list) = 0
       THEN /\ last' = [NoCall EXCEPT !.op = "indexConversation", !.present = arg.present,
                                      !.ret = 0]
            /\ UNCHANGED engine
       ELSE LET built == Rebuilt(arg.list)
            IN  /\ chunks' = built.chunks
                /\ keywordIndex' = built.keywordIndex
                /\ documentFrequency' = built.documentFrequency
                /\ conversationText' = built.conversationText
                /\ isIndexed' = TRUE
                /\ last' = [NoCall EXCEPT !.op = "indexConversation", !.present = TRUE,
                                          !.length = Len(arg.list),
                                          !.ret = Len(built.chunks),
                                          !.prior = Len(chunks)]
  /\ UNCHANGED app

\* faulty variant of Search: the chunks returned for a query without keywords
\* are taken out of the savedChats array (splice for slice)
SearchSplices(query, topK) ==
  /\ last' = [NoCall EXCEPT !.op = "search", !.query = query, !.topK = topK,
                            !.result = search(query, topK)]
  /\ chunks' = IF isIndexed /\ DOMAIN extractKeywords(query) = {}
               THEN SubSeq(chunks, 1, Len(chunks) - Len(search(query, topK)))
               ELSE chunks
  /\ UNCHANGED <<keywordIndex, documentFrequency, isIndexed, conversationText>>
  /\ UNCHANGED app

Search(query, topK) ==
  /\ last' = [NoCall EXCEPT !.op = "search", !.query = query, !.topK = topK,
                            !.result = search(query, topK)]
  /\ UNCHANGED engine
  /\ UNCHANGED app

GetContextForQuery(query) ==
  /\ last' = [NoCall EXCEPT !.op = "getContextForQuery", !.query = query,
                            !.topK = TOP_K,
                            !.context = getContextForQuery(query)]
  /\ UNCHANGED engine
  /\ UNCHANGED app

\* faulty variant of Clear: only the two maps are emptied
ClearMapsOnly ==
  /\ keywordIndex' = <<>>
  /\ documentFrequency' = <<>>
  /\ last' = [NoCall EXCEPT !.op = "clear"]
  /\ UNCHANGED <<chunks, isIndexed, conversationText>>
  /\ UNCHANGED app

Clear ==
  /\ chunks' = <<>>
  /\ keywordIndex' = <<>>
  /\ documentFrequency' = <<>>
  /\ isIndexed' = FALSE
  /\ last' = [NoCall EXCEPT !.op = "clear"]
  /\ UNCHANGED conversationText
  /\ UNCHANGED app

Next ==
  \/ \E arg \in Arguments : IndexConversation(arg)
  \/ \E query \in Queries, topK \in TopKs : Search(query, topK)
  \/ \E query \in Queries : GetContextForQuery(query)
  \/ Clear

Spec == Init /\ [][Next]_vars


(* ---------------------------------------------------------------------- *)
(* createChunks pass by pass                                               *)
(* ---------------------------------------------------------------------- *)
\* A call of createChunks in progress, inside indexConversation after the
\* reset: last holds the locals of the loop (start, iterations, chunks,
\* running), the number of passes made and the slice [from, to) of the latest
\* pass; conversationText holds the content being cut.
Transcripts == {conversationTextOf(m) : m \in Conversations \ {<<>>}}

\* the locals before the first pass
loopEntry ==
  [start |-> 0, iterations |-> 0, chunks |-> <<>>, running |-> TRUE,
   from |-> 0, to |-> 0]

\* the locals after each evaluation of the while-condition (and of the body,
\* when the condition holds), from the state st on, appended to acc
RECURSIVE passesFrom(_, _, _)
passesFrom(content, st, acc) ==
  IF ~st.running THEN Append(acc, st)
  ELSE LET next == chunkStep(content, [start |-> st.start,
                                       iterations |-> st.iterations,
                                       chunks |-> st.chunks,
                                       running |-> st.running])
           entered == next.iterations > st.iterations
       IN  passesFrom(content,
                      [start |-> next.start, iterations |-> next.iterations,
                       chunks |-> next.chunks, running |-> next.running,
                       from |-> IF entered THEN st.start ELSE st.from,
                       to |-> IF entered THEN sliceEnd(content, st.start) ELSE st.to],
                      Append(acc, st))

\* the passes are a function of the content alone; they are evaluated once per
\* transcript and looked up afterwards
PassTable == {<<content, passesFrom(content, loopEntry, <<>>)>> : content \in Transcripts}
Passes(content) == (CHOOSE entry \in PassTable : entry[1] = content)[2]

ChunkInit ==
  /\ chunks = <<>>
  /\ keywordIndex = <<>>
  /\ documentFrequency = <<>>
  /\ isIndexed = FALSE
  /\ conversationText \in Transcripts
  /\ last = [op |-> "createChunks", pass |-> 0, loop |-> loopEntry]
  /\ AppNew
  /\ savedChats = <<>>

\* one evaluation of the while-condition and, when it holds, of the body
ChunkPass ==
  /\ last.op = "createChunks"
  /\ last.loop.running
  /\ last' = [op |-> "createChunks", pass |-> last.pass + 1,
              loop |-> Passes(conversationText)[last.pass + 2]]
  /\ UNCHANGED engine
  /\ UNCHANGED app

\* return chunks; this.chunks = this.createChunks(conversationText)
ChunkReturn ==
  /\ last.op = "createChunks"
  /\ ~last.loop.running
  /\ chunks' = last.loop.chunks
  /\ last' = [last EXCEPT !.op = "returned"]
  /\ UNCHANGED <<keywordIndex, documentFrequency, isIndexed, conversationText>>
  /\ UNCHANGED app

ChunkNext == ChunkPass \/ ChunkReturn

ChunkSpec == ChunkInit /\ [][ChunkNext]_vars /\ WF_vars(ChunkNext)

(* ---------------------------------------------------------------------- *)
(* ChatApp: sendMessage and the chat management around it                  *)
(* ---------------------------------------------------------------------- *)
\* An invocation of sendMessage in progress is a record of calls: pc is the
\* await it is suspended at ("createChat", "fetch", "read", "save"), text,
\* ragContext and fullResponse are its locals, body holds the pieces the
\* response has yet to yield; queried tells that it called getContextForQuery, chat
\* and at are the chat id and the place in this.messages of its question.
\* chatStorage is outside the sources at hand: savedChats holds, for each chat id
\* handed out, whether the chat exists and the messages saved under it.

\* the chat saved by an earlier session
SavedChat ==
  [exists |-> TRUE,
   messages |-> <<[role |-> "user", content |-> QueryOne],
                  [role |-> "assistant", content |-> <<"m", "o", "v", "e", "d">>],
                  [role |-> "user", content |-> <<"w", "h", "y">>],
                  [role |-> "assistant", content |-> <<"b", "o", "r", "r", "o", "w", "s">>]>>]

\* this.inputField.value.trim()
Texts == {QueryOne, <<>>}
\* the pieces of content a streamed response yields
Bodies == {<<<<"m", "o", "v", "e", "d">>>>}
\* 'Sorry, I encountered an error. Please try again.'
Sorry ==
  <<"S", "o", "r", "r", "y", ",", " ", "I", " ", "e", "n", "c", "o", "u", "n", "t">> \o
  <<"e", "r", "e", "d", " ", "a", "n", " ", "e", "r", "r", "o", "r", ".", " ", "P">> \o
  <<"l", "e", "a", "s", "e", " ", "t", "r", "y", " ", "a", "g", "a", "i", "n", ".">>

\* Array.prototype.slice(begin, end)
slice(arr, begin, end) ==
  LET from == IF begin < 0 THEN Max(Len(arr) + begin, 0) ELSE Min(begin, Len(arr))
      to == IF end < 0 THEN Max(Len(arr) + end, 0) ELSE Min(end, Len(arr))
  IN  SubSeq(arr, from + 1, to)

\* chatStorage.addMessage(chatId, role, content)
addMessageTo(store, chatId, message) ==
  IF chatId \in 1..Len(store) /\ store[chatId].exists
  THEN [store EXCEPT ![chatId].messages = Append(@, message)]
  ELSE store

\* addMessage: if (this.currentChatId) chatStorage.addMessage(...)
saved(store, chatId, message) ==
  IF chatId # NoChat THEN addMessageTo(store, chatId, message) ELSE store

\* search and getContextForQuery as functions of the index they read, for the
\* call made right after indexConversation inside one step of sendMessage:
\* index holds chunks, documentFrequency and isIndexed
rawScoreIn(index, chunk, queryKeywords, N) ==
  LET present == {w \in DOMAIN queryKeywords : w \in DOMAIN chunk.keywords}
      term == [w \in present |->
                 chunk.keywords[w] * idf(N, getOr(index.documentFrequency, w, 1))
                                   * queryKeywords[w]]
  IN  sumOver(present, term)

\* the boosted score of every chunk of the index, by position
scoresIn(index, queryKeywords) ==
  LET N == Len(index.chunks)
  IN  SubSeq([i \in 1..N |->
                rawScoreIn(index, index.chunks[i], queryKeywords, N)
                  * (10 * N + 3 * index.chunks[i].id)],
             1, N)

\* sort((a, b) => b[1] - a[1]) over the chunks scored: their positions, the
\* higher score first, equal scores in insertion order
byScoreIn(score) ==
  LET scores == {i \in 1..Len(score) : isScored(score[i])}
  IN  ordered(scores,
              {p \in scores \X scores :
                 \/ score[p[1]] > score[p[2]]
                 \/ score[p[1]] = score[p[2]] /\ p[1] < p[2]})

\* slice(0, topK), then sort((a, b) => a.start - b.start)
topChunksIn(all, score, sorted, topK) ==
  LET picked == {sorted[r] : r \in 1..Min(topK, Len(sorted))}
      sortedChunks ==
        ordered(picked,
                {p \in picked \X picked :
                   \/ all[p[1]].start < all[p[2]].start
                   \/ /\ all[p[1]].start = all[p[2]].start
                      /\ \/ score[p[1]] > score[p[2]]
                         \/ score[p[1]] = score[p[2]] /\ p[1] < p[2]})
  IN  [r \in 1..Cardinality(picked) |-> all[sortedChunks[r]]]

rankedIn(index, queryKeywords, score, topK) ==
  IF DOMAIN queryKeywords = {}
  THEN sliceFrom(index.chunks, -topK)
  ELSE topChunksIn(index.chunks, score, byScoreIn(score), topK)

searchIn(index, query, topK) ==
  IF ~index.isIndexed \/ Len(index.chunks) = 0 THEN <<>>
  ELSE rankedIn(index, extractKeywords(query),
                scoresIn(index, extractKeywords(query)), topK)

contextIn(index, query) ==
  LET relevantChunks == searchIn(index, query, TOP_K)
  IN  IF Len(relevantChunks) = 0 THEN <<>>
      ELSE assemble(relevantChunks, 1, <<>>)

AppInit ==
  /\ chunks = <<>>
  /\ keywordIndex = <<>>
  /\ documentFrequency = <<>>
  /\ isIndexed = FALSE
  /\ conversationText = <<>>
  /\ last = NoCall
  /\ AppNew
  /\ savedChats = <<SavedChat>>

\* indexConversation(list) past its guard, as a function of the list
indexed ==
  [list \in Seq([role : {"user", "assistant"}, content : Seq(STRING)]) |-> rebuild(list)]

\* what indexConversation leaves alone when it is not called
unchangedIndex ==
  [conversationText |-> conversationText, chunks |-> chunks,
   keywordIndex |-> keywordIndex, documentFrequency |-> documentFrequency]

\* faulty variant of Ask: the context is fetched before the index is rebuilt
AskQueriesFirst(c, text, chatId, store) ==
  LET message == [role |-> "user", content |-> text]
      list == Append(messages, message)
      earlier == slice(list, 0, -1)
      indexes == Len(list) > 2 /\ Len(earlier) > 0
      queries == Len(list) > 4
  IN  \E built \in {IF indexes THEN indexed[earlier] ELSE unchangedIndex} :
      \E context \in {IF queries
                      THEN contextIn([chunks |-> chunks,
                                      documentFrequency |-> documentFrequency,
                                      isIndexed |-> isIndexed], text)
                      ELSE <<>>} :
        /\ messages' = list
        /\ currentChatId' = chatId
        /\ savedChats' = saved(store, chatId, message)
        /\ isLoading' = TRUE
        /\ chunks' = built.chunks
        /\ keywordIndex' = built.keywordIndex
        /\ documentFrequency' = built.documentFrequency
        /\ conversationText' = built.conversationText
        /\ isIndexed' = (indexes \/ isIndexed)
        /\ last' = IF queries
                   THEN [NoCall EXCEPT !.op = "getContextForQuery", !.query = text,
                                       !.topK = TOP_K, !.context = context]
                   ELSE IF indexes
                   THEN [NoCall EXCEPT !.op = "indexConversation", !.present = TRUE,
                                       !.length = Len(earlier),
                                       !.ret = Len(built.chunks),
                                       !.prior = Len(chunks)]
                   ELSE last
        /\ calls' = [calls EXCEPT
                       ![c] = [pc |-> "fetch", text |-> text, ragContext |-> context,
                               fullResponse |-> <<>>, body |-> <<>>,
                               queried |-> queries, chat |-> chatId,
                               at |-> Len(list)]]

\* sendMessage from "Add user message" to the await of fetch in callGroqAPI
\* (an API key is configured): chatId and store are this.currentChatId and
\* the chats savedChats once the chat creation, if any, has settled
Ask(c, text, chatId, store) ==
  LET message == [role |-> "user", content |-> text]
      list == Append(messages, message)
      earlier == slice(list, 0, -1)
      indexes == Len(list) > 2 /\ Len(earlier) > 0
      queries == Len(list) > 4
  IN  \E built \in {IF indexes THEN indexed[earlier] ELSE unchangedIndex} :
      \E context \in {IF queries
                      THEN contextIn([chunks |-> built.chunks,
                                      documentFrequency |-> built.documentFrequency,
                                      isIndexed |-> indexes \/ isIndexed], text)
                      ELSE <<>>} :
        /\ messages' = list
        /\ currentChatId' = chatId
        /\ savedChats' = saved(store, chatId, message)
        /\ isLoading' = TRUE
        /\ chunks' = built.chunks
        /\ keywordIndex' = built.keywordIndex
        /\ documentFrequency' = built.documentFrequency
        /\ conversationText' = built.conversationText
        /\ isIndexed' = (indexes \/ isIndexed)
        /\ last' = IF queries
                   THEN [NoCall EXCEPT !.op = "getContextForQuery", !.query = text,
                                       !.topK = TOP_K, !.context = context]
                   ELSE IF indexes
                   THEN [NoCall EXCEPT !.op = "indexConversation", !.present = TRUE,
                                       !.length = Len(earlier),
                                       !.ret = Len(built.chunks),
                                       !.prior = Len(chunks)]
                   ELSE last
        /\ calls' = [calls EXCEPT
                       ![c] = [pc |-> "fetch", text |-> text, ragContext |-> context,
                               fullResponse |-> <<>>, body |-> <<>>,
                               queried |-> queries, chat |-> chatId,
                               at |-> Len(list)]]

\* the catch block of sendMessage, then its finally block
Fail(c) ==
  LET message == [role |-> "assistant", content |-> Sorry]
  IN  /\ messages' = Append(messages, message)
      /\ savedChats' = saved(savedChats, currentChatId, message)
      /\ isLoading' = FALSE
      /\ calls' = [calls EXCEPT ![c] = Idle]
      /\ UNCHANGED <<engine, last, currentChatId, pending, events>>

\* sendMessage up to its first await; the input field holds text
SendMessage(c, text) ==
  /\ calls[c].pc = "idle"
  /\ \A d \in 1..(c - 1) : calls[d].pc # "idle"
  /\ events < MaxEvents
  /\ IF text = <<>> \/ isLoading
     THEN UNCHANGED vars
     ELSE /\ events' = events + 1
          /\ UNCHANGED pending
          /\ IF Len(messages) = 0 /\ currentChatId = NoChat
             THEN /\ calls' = [calls EXCEPT ![c] = [Idle EXCEPT !.pc = "createChat",
                                                                 !.text = text]]
                  /\ UNCHANGED <<engine, last, messages, currentChatId, isLoading,
                                 savedChats>>
             ELSE Ask(c, text, currentChatId, savedChats)

\* await chatStorage.createChat(title, []) settles: with a chat, or rejected
CreateChatSettles(c, ok) ==
  /\ calls[c].pc = "createChat"
  /\ ok => Len(savedChats) < MaxChats
  /\ IF ok
     THEN Ask(c, calls[c].text, Len(savedChats) + 1,
              Append(savedChats, [exists |-> TRUE, messages |-> <<>>]))
     ELSE Ask(c, calls[c].text, currentChatId, savedChats)
  /\ UNCHANGED <<pending, events>>

\* await fetch(...) settles: with a response that is ok and the pieces its
\* body will yield, or not
FetchSettles(c, ok, body) ==
  /\ calls[c].pc = "fetch"
  /\ IF ok
     THEN /\ calls' = [calls EXCEPT ![c].pc = "read", ![c].body = body]
          /\ UNCHANGED <<engine, last, messages, currentChatId, isLoading,
                         savedChats, pending, events>>
     ELSE Fail(c)

\* await reader.read() settles: with the next piece of the body, or with done
ReadSettles(c) ==
  /\ calls[c].pc = "read"
  /\ IF calls[c].body # <<>>
     THEN /\ calls' = [calls EXCEPT ![c].fullResponse = @ \o calls[c].body[1],
                                    ![c].body = SubSeq(@, 2, Len(@))]
          /\ UNCHANGED <<engine, last, messages, currentChatId, isLoading,
                         savedChats, pending, events>>
     ELSE LET message == [role |-> "assistant", content |-> calls[c].fullResponse]
          IN  /\ messages' = Append(messages, message)
              /\ IF currentChatId # NoChat
                 THEN /\ savedChats' = addMessageTo(savedChats, currentChatId, message)
                      /\ calls' = [calls EXCEPT ![c].pc = "save"]
                      /\ UNCHANGED isLoading
                 ELSE /\ calls' = [calls EXCEPT ![c] = Idle]
                      /\ isLoading' = FALSE
                      /\ UNCHANGED savedChats
              /\ UNCHANGED <<engine, last, currentChatId, pending, events>>

\* await chatStorage.addMessage(...) settles; return fullResponse; finally
SaveSettles(c) ==
  /\ calls[c].pc = "save"
  /\ isLoading' = FALSE
  /\ calls' = [calls EXCEPT ![c] = Idle]
  /\ UNCHANGED <<engine, last, messages, currentChatId, savedChats, pending, events>>

\* startNewChat up to its await: the reset and chatIndexer.clear()
reset ==
  /\ currentChatId' = NoChat
  /\ messages' = <<>>
  /\ chunks' = <<>>
  /\ keywordIndex' = <<>>
  /\ documentFrequency' = <<>>
  /\ isIndexed' = FALSE
  /\ last' = [NoCall EXCEPT !.op = "clear"]
  /\ UNCHANGED conversationText

StartNewChat ==
  /\ events < MaxEvents
  /\ events' = events + 1
  /\ reset
  /\ UNCHANGED <<isLoading, savedChats, calls, pending>>

\* loadChatById up to await chatStorage.loadChat(chatId)
LoadChatById(chatId) ==
  /\ Cardinality(pending) < MaxPending
  /\ events < MaxEvents
  /\ events' = events + 1
  /\ pending' = pending \cup {[op |-> "loadChat", chatId |-> chatId]}
  /\ UNCHANGED <<engine, last, messages, currentChatId, isLoading, savedChats, calls>>

\* await chatStorage.loadChat(chatId) settles: with the chat, or with none
LoadChatSettles(p) ==
  /\ p.op = "loadChat"
  /\ pending' = pending \ {p}
  /\ IF savedChats[p.chatId].exists
     THEN /\ currentChatId' = p.chatId
          /\ messages' = savedChats[p.chatId].messages
     ELSE UNCHANGED <<currentChatId, messages>>
  /\ UNCHANGED <<engine, last, isLoading, savedChats, calls, events>>

\* deleteChatById up to await chatStorage.deleteChat(chatId)
DeleteChatById(chatId) ==
  /\ Cardinality(pending) < MaxPending
  /\ events < MaxEvents
  /\ events' = events + 1
  /\ pending' = pending \cup {[op |-> "deleteChat", chatId |-> chatId]}
  /\ UNCHANGED <<engine, last, messages, currentChatId, isLoading, savedChats, calls>>

\* await chatStorage.deleteChat(chatId) settles: the chat is gone, and a new
\* chat is started when it was the current one
DeleteChatSettles(p) ==
  /\ p.op = "deleteChat"
  /\ pending' = pending \ {p}
  /\ savedChats' = [savedChats EXCEPT ![p.chatId].exists = FALSE]
  /\ IF currentChatId = p.chatId
     THEN reset
     ELSE UNCHANGED <<engine, last, messages, currentChatId>>
  /\ UNCHANGED <<isLoading, calls, events>>

AppNext ==
  \/ \E c \in 1..MaxCalls, text \in Texts : SendMessage(c, text)
  \/ \E c \in 1..MaxCalls, ok \in BOOLEAN : CreateChatSettles(c, ok)
  \/ \E c \in 1..MaxCalls, ok \in BOOLEAN, body \in Bodies : FetchSettles(c, ok, body)
  \/ \E c \in 1..MaxCalls : ReadSettles(c)
  \/ \E c \in 1..MaxCalls : SaveSettles(c)
  \/ StartNewChat
  \/ \E chatId \in 1..Len(savedChats) : LoadChatById(chatId)
  \/ \E p \in pending : LoadChatSettles(p)
  \/ \E chatId \in 1..Len(savedChats) : DeleteChatById(chatId)
  \/ \E p \in pending : DeleteChatSettles(p)

AppSpec == AppInit /\ [][AppNext]_vars

(* ---------------------------------------------------------------------- *)
(* Properties                                                              *)
(* ---------------------------------------------------------------------- *)
IndexedEmpty == last.op = "indexConversation" /\ last.length = 0
IndexedMessages == last.op = "indexConversation" /\ last.length > 0
Searched == last.op = "search"
AskedContext == last.op = "getContextForQuery"
lastKeywords == DOMAIN extractKeywords(last.query)
\* chunk i is in the sequence a search returned
Returns(result, i) == \E r \in 1..Len(result) : result[r] = chunks[i]
\* every keyword of the latest query occurs in chunk i and in no other chunk
OnlyInChunk(i) ==
  \A w \in lastKeywords :
    \A j \in 1..Len(chunks) : (w \in DOMAIN chunks[j].keywords) <=> (j = i)

\* C1: a call of indexConversation with an empty or absent message list returns
\* 0 and leaves the engine unindexed, whatever was called before.
EmptyIndexLeavesUnindexed ==
  IndexedEmpty => (last.ret = 0 /\ ~isIndexed)

\* C2: while the engine is not indexed or holds no chunk (initially, and after
\* clear() until the next rebuild) every search returns the empty sequence and
\* every context is the empty string.
UnindexedSearchIsEmpty ==
  (last.op \in {"new", "clear"} \/ ~isIndexed \/ Len(chunks) = 0) =>
    \A query \in Queries :
      /\ getContextForQuery(query) = <<>>
      /\ \A topK \in TopKs \cup {TOP_K} : search(query, topK) = <<>>

SearchedAfterClear ==
  /\ AskedContext
  /\ ~isIndexed
  /\ conversationText # <<>>
  /\ last.context = <<>>

\* C3 as stated: with N >= 1 chunks and topK >= 1, a chunk that alone holds every
\* keyword of the query has a positive score and is returned.
SoleHolderIsReturned ==
  (Searched /\ last.topK >= 1 /\ isIndexed /\ Len(chunks) >= 1
            /\ lastKeywords # {}) =>
    \A i \in 1..Len(chunks) :
      OnlyInChunk(i) =>
        /\ boostedScore(chunks[i], extractKeywords(last.query), Len(chunks)) > 0
        /\ Returns(last.result, i)

\* C3: with N >= 2 chunks and topK >= 1, a chunk that alone holds every keyword
\* of the query has a positive score and is returned.
SoleHolderAmongSeveralIsReturned ==
  (Searched /\ last.topK >= 1 /\ isIndexed /\ Len(chunks) >= 2
            /\ lastKeywords # {}) =>
    \A i \in 1..Len(chunks) :
      OnlyInChunk(i) =>
        /\ boostedScore(chunks[i], extractKeywords(last.query), Len(chunks)) > 0
        /\ Returns(last.result, i)

SoleHolderFound ==
  /\ Searched /\ last.topK >= 1 /\ isIndexed /\ Len(chunks) >= 2
  /\ lastKeywords # {}
  /\ \E i \in 1..Len(chunks) : OnlyInChunk(i) /\ Returns(last.result, i)

\* C4: the string returned by getContextForQuery is never longer than
\* MAX_CONTEXT_CHARS.
ContextWithinBudget ==
  AskedContext => Len(last.context) <= MAX_CONTEXT_CHARS

\* C5: the string returned by getContextForQuery exceeds MAX_CONTEXT_CHARS by at
\* most the length of the ellipsis marker, whether the last chunk was taken
\* whole or cut.
ContextWithinBudgetPlusEllipsis ==
  AskedContext => Len(last.context) <= MAX_CONTEXT_CHARS + Len(Ellipsis)

EndsWithEllipsis(s) ==
  Len(s) >= Len(Ellipsis) /\ SubSeq(s, Len(s) - Len(Ellipsis) + 1, Len(s)) = Ellipsis

ContextCutAtBudget ==
  /\ AskedContext
  /\ EndsWithEllipsis(last.context)
  /\ Len(last.context) > MAX_CONTEXT_CHARS - TruncationSlack

\* C6: on an indexed engine with N chunks a query without keywords returns
\* exactly the last min(topK, N) chunks in their original order, for every
\* topK >= 0.
NoKeywordsReturnsLastTopK ==
  (Searched /\ isIndexed /\ Len(chunks) >= 1 /\ lastKeywords = {}) =>
    last.result = SubSeq(chunks, Len(chunks) - Min(last.topK, Len(chunks)) + 1,
                         Len(chunks))

\* C7: when the query has a keyword, a chunk holding none of the query keywords
\* scores 0 and is not in the result.
ChunkWithoutKeywordsExcluded ==
  (Searched /\ lastKeywords # {}) =>
    \A i \in 1..Len(chunks) :
      (lastKeywords \cap DOMAIN chunks[i].keywords = {}) =>
        /\ boostedScore(chunks[i], extractKeywords(last.query), Len(chunks)) = 0
        /\ ~Returns(last.result, i)

SomeChunksExcluded ==
  /\ Searched /\ lastKeywords # {}
  /\ last.result # <<>>
  /\ \E i \in 1..Len(chunks) : lastKeywords \cap DOMAIN chunks[i].keywords = {}

\* C8: for a non-empty message list, indexConversation returns the number of
\* chunks the engine holds right after the call.
ReturnsChunkCount ==
  IndexedMessages => last.ret = Len(chunks)

ReturnedSeveralChunks ==
  IndexedMessages /\ last.ret >= 2 /\ last.ret = Len(chunks)

\* C9 as stated: for a non-empty message list, indexConversation returns 0 only
\* if the trimmed transcript has 30 characters or fewer.
ZeroOnlyForShortTranscript ==
  (IndexedMessages /\ last.ret = 0) => Len(trim(conversationText)) <= 30

\* the part of the transcript that the first slice is sure to cover: all of it
\* up to CHUNK_SIZE characters, else what lies before the break window
firstSliceCore ==
  IF Len(conversationText) <= CHUNK_SIZE THEN conversationText
  ELSE substring(conversationText, 0, CHUNK_SIZE - BreakWindow)

\* C9: for a non-empty message list, indexConversation returns 0 only if the
\* part of the transcript that the first slice is sure to cover trims to 30
\* characters or fewer; so a transcript of at most CHUNK_SIZE characters with
\* more than 30 trimmed characters yields a chunk.
ZeroOnlyForShortFirstSlice ==
  (IndexedMessages /\ last.ret = 0) => Len(trim(firstSliceCore)) <= 30

ZeroForPaddedTranscript ==
  /\ IndexedMessages /\ last.ret = 0
  /\ Len(conversationText) > CHUNK_SIZE
  /\ Len(trim(firstSliceCore)) <= 30

\* C10: every stored chunk has 0 <= start < end <= length of the transcript it
\* was cut from, and its text, the trimmed slice, is longer than 30 characters.
ChunksWellFormed ==
  \A i \in 1..Len(chunks) :
    LET c == chunks[i]
    IN  /\ 0 <= c.start /\ c.start < c.end /\ c.end <= Len(conversationText)
        /\ c.text = trim(substring(conversationText, c.start, c.end))
        /\ Len(c.text) > 30

ChunksStoredAfterReindex ==
  /\ IndexedMessages
  /\ Len(chunks) >= 2
  /\ \E i \in 1..Len(chunks) : chunks[i].end < Len(conversationText)
  /\ \E i \in 1..Len(chunks) : chunks[i].end = Len(conversationText)


\* C11: every stored chunk but the first starts no later than the end of the
\* chunk stored before it, also when slices between the two were dropped.
ConsecutiveChunksOverlap ==
  \A i \in 1..(Len(chunks) - 1) : chunks[i + 1].start <= chunks[i].end

\* C12: the start offsets of the stored chunks are strictly increasing.
StartsStrictlyIncrease ==
  \A i \in 1..(Len(chunks) - 1) : chunks[i + 1].start > chunks[i].start

\* chunks stored from the end of the transcript, where the loop moves on by
\* one character at a time
StartsOneApartStored ==
  /\ IndexedMessages
  /\ \E i \in 1..(Len(chunks) - 1) :
       /\ chunks[i + 1].start = chunks[i].start + 1
       /\ chunks[i + 1].end = chunks[i].end

\* C13: right after indexConversation(m) with a non-empty m the chunks, the
\* inverted index and the document frequencies are those that m gives on a new
\* engine, whatever the engine held before.
RebuildDependsOnInputOnly ==
  IndexedMessages =>
    /\ \E m \in Conversations \ {<<>>} : Rebuilt(m).conversationText = conversationText
    /\ \A m \in Conversations \ {<<>>} :
         (Rebuilt(m).conversationText = conversationText) =>
           LET fresh == rebuild(m)
           IN  /\ chunks = fresh.chunks
               /\ keywordIndex = fresh.keywordIndex
               /\ documentFrequency = fresh.documentFrequency
               /\ isIndexed

\* a rebuild over an engine that held another index, with some term of the
\* old index absent from the new one
RebuiltOverOtherIndex ==
  /\ IndexedMessages
  /\ last.prior > 0
  /\ last.prior # Len(chunks)
  /\ Len(chunks) > 0
  /\ ~(<<"b", "o", "r", "r", "o", "w">> \in DOMAIN keywordIndex)

\* C14: a call of search or getContextForQuery leaves the chunk sequence, its
\* order included, the inverted index, the document frequencies and the
\* indexed flag as they were.
QueriesAreReadOnly ==
  [][(last'.op \in {"search", "getContextForQuery"}) =>
       UNCHANGED <<chunks, keywordIndex, documentFrequency, isIndexed>>]_vars

\* a search that scored, picked and re-sorted several chunks of a larger index
SearchedAndSorted ==
  /\ Searched /\ lastKeywords # {}
  /\ Len(last.result) >= 2
  /\ Len(chunks) > Len(last.result)
  /\ keywordIndex # <<>>

\* the score search gives to a chunk for the latest query
lastScore(chunk) == boostedScore(chunk, extractKeywords(last.query), Len(chunks))

\* C15: the chunks search returns are in document order, by strictly ascending
\* start and so by ascending id, with or without keywords in the query and
\* whatever their scores.
ResultInDocumentOrder ==
  Searched =>
    \A r \in 1..(Len(last.result) - 1) :
      /\ last.result[r].start < last.result[r + 1].start
      /\ last.result[r].id < last.result[r + 1].id

\* a result whose later chunk scored higher than its earlier one
ResultAgainstScoreOrder ==
  /\ Searched /\ lastKeywords # {}
  /\ Len(last.result) >= 2
  /\ lastScore(last.result[2]) > lastScore(last.result[1])

\* the chunks that hold the term w
holders(w) == {j \in 1..Len(chunks) : w \in DOMAIN chunks[j].keywords}

\* the score of the i-th chunk for the latest query as the formula
\* (sum of tf * ln(N / df) * qf) * (1 + 0.3 * id / N) gives it, in the units
\* of boostedScore, with df counted over the stored chunks
statedScore(i) ==
  LET N == Len(chunks)
      qf == extractKeywords(last.query)
      present == {w \in DOMAIN qf : w \in DOMAIN chunks[i].keywords}
      term == [w \in present |->
                 chunks[i].keywords[w] * (LnTable[N] - LnTable[Cardinality(holders(w))])
                                       * qf[w]]
  IN  sumOver(present, term) * (10 * N + 3 * chunks[i].id)

\* C16: for a query with a keyword, search returns min(topK, P) distinct
\* chunks, P being the number of chunks with a positive score; all of them
\* score positive, and none scores below a positive-scoring chunk left out.
TopScoredReturned ==
  (Searched /\ lastKeywords # {}) =>
    LET N == Len(chunks)
        score == SubSeq([i \in 1..N |-> statedScore(i)], 1, N)
        positive == {i \in 1..N : score[i] > 0}
        returned == {last.result[r].id + 1 : r \in 1..Len(last.result)}
    IN  /\ Len(last.result) = Min(last.topK, Cardinality(positive))
        /\ Cardinality(returned) = Len(last.result)
        /\ returned \subseteq positive
        /\ \A r \in 1..Len(last.result) : last.result[r] = chunks[last.result[r].id + 1]
        /\ \A i \in returned, j \in positive \ returned : score[i] >= score[j]

\* a search that had to leave out chunks with a positive score, one of them
\* scoring strictly less than a returned one
PositiveChunksLeftOut ==
  /\ Searched /\ lastKeywords # {}
  /\ last.topK >= 1
  /\ Len(last.result) = last.topK
  /\ \E j \in 1..Len(chunks) :
       /\ \A r \in 1..Len(last.result) : last.result[r].id # chunks[j].id
       /\ lastScore(chunks[j]) > 0
       /\ lastScore(chunks[j]) < lastScore(last.result[1])

\* C17: the inverted index and the document frequencies hold exactly the terms
\* of the stored chunks; the posting list of a term is the ids of the chunks
\* holding it, each once, ascending, and its document frequency is the length
\* of that list.
IndexMatchesChunks ==
  LET terms == UNION {DOMAIN chunks[j].keywords : j \in 1..Len(chunks)}
  IN  /\ DOMAIN keywordIndex = terms
      /\ DOMAIN documentFrequency = terms
      /\ \A t \in terms :
           LET posting == keywordIndex[t]
           IN  /\ {posting[k] : k \in 1..Len(posting)} = {chunks[j].id : j \in holders(t)}
               /\ \A k \in 1..(Len(posting) - 1) : posting[k] < posting[k + 1]
               /\ documentFrequency[t] = Len(posting)

\* an index with a term that some chunks hold and others do not, and that
\* occurs several times in one chunk
TermInSomeChunksSeveralTimes ==
  /\ IndexedMessages
  /\ \E t \in DOMAIN keywordIndex :
       /\ Len(keywordIndex[t]) >= 2
       /\ Len(keywordIndex[t]) < Len(chunks)
       /\ \E j \in holders(t) : chunks[j].keywords[t] >= 2

\* the lower-cased [a-z0-9]+ tokens of text from position i on, in order; cur
\* is the token being read and done the tokens read so far
RECURSIVE scanTokens(_, _, _, _)
scanTokens(text, i, cur, done) ==
  LET closed == IF cur = <<>> THEN done ELSE Append(done, cur)
  IN  IF i > Len(text) THEN closed
      ELSE LET c == toLowerCase(text[i])
           IN  IF c \in Lower \cup Digit
               THEN scanTokens(text, i + 1, Append(cur, c), done)
               ELSE scanTokens(text, i + 1, <<>>, closed)

allDigits(word) == \A k \in 1..Len(word) : word[k] \in Digit

\* the map the tokens of text give: those longer than 2 that are neither stop
\* words nor numbers, each with its number of occurrences
statedKeywords(text) ==
  LET toks == scanTokens(text, 1, <<>>, <<>>)
      kept == {k \in 1..Len(toks) :
                 Len(toks[k]) > 2 /\ toks[k] \notin STOP_WORDS /\ ~allDigits(toks[k])}
  IN  [w \in {toks[k] : k \in kept} |-> Cardinality({k \in kept : toks[k] = w})]

ShortText == 80

\* C18: extractKeywords maps exactly the lower-cased [a-z0-9]+ tokens that are
\* longer than 2, not stop words and not all digits to their number of
\* occurrences; checked on every query and on the stored chunks of up to
\* ShortText characters.
KeywordsAreFilteredTokens ==
  /\ (Searched \/ AskedContext) =>
       extractKeywords(last.query) = statedKeywords(last.query)
  /\ \A i \in 1..Len(chunks) :
       Len(chunks[i].text) <= ShortText =>
         chunks[i].keywords = statedKeywords(chunks[i].text)

\* a query in which a keyword occurs twice and a number, a stop word and a
\* short token are dropped
QueryWithEveryKindOfToken ==
  /\ Searched
  /\ \E w \in lastKeywords : extractKeywords(last.query)[w] = 2
  /\ LET toks == scanTokens(last.query, 1, <<>>, <<>>)
     IN  /\ \E k \in 1..Len(toks) : allDigits(toks[k]) /\ Len(toks[k]) > 2
         /\ \E k \in 1..Len(toks) : toks[k] \in STOP_WORDS
         /\ \E k \in 1..Len(toks) : ~allDigits(toks[k]) /\ toks[k] \notin lastKeywords
                                     /\ toks[k] \notin STOP_WORDS

\* the texts of the first k chunks of rel, a blank line between them
RECURSIVE joined(_, _)
joined(rel, k) ==
  IF k = 0 THEN <<>>
  ELSE IF k = 1 THEN rel[1].text
  ELSE joined(rel, k - 1) \o BlankLine \o rel[k].text

\* C19: the context is the chunks search returns, in full, up to the first one
\* that would take it past the budget; of that one it holds the first
\* MAX_CONTEXT_CHARS - (length so far) - 10 characters followed by the
\* ellipsis, and nothing of the chunks after it. So a context that lacks part
\* of a returned chunk ends with the ellipsis.
CutChunkEndsContext ==
  AskedContext =>
    LET rel == search(last.query, TOP_K)
        over(k) == Len(joined(rel, k - 1)) + Len(rel[k].text) > MAX_CONTEXT_CHARS
        firstOver == {k \in 1..Len(rel) : over(k) /\ \A j \in 1..(k - 1) : ~over(j)}
    IN  IF firstOver = {} THEN last.context = joined(rel, Len(rel))
        ELSE \A k \in firstOver :
               LET sofar == joined(rel, k - 1)
                   room == MAX_CONTEXT_CHARS - Len(sofar) - 10
                   piece == SubSeq(rel[k].text, 1, room)
               IN  /\ Len(piece) = room
                   /\ last.context = sofar \o Continued \o piece \o Ellipsis
                   /\ EndsWithEllipsis(last.context)

\* a context that holds some chunks in full and only a piece of the next
ContextCutInsideChunk ==
  /\ AskedContext
  /\ LET rel == search(last.query, TOP_K)
     IN  /\ Len(rel) >= 2
         /\ Len(joined(rel, Len(rel))) > MAX_CONTEXT_CHARS
         /\ SubSeq(last.context, 1, Len(rel[1].text)) = rel[1].text
  /\ EndsWithEllipsis(last.context)

\* the marker bp occurs in the transcript at the 0-based position p
occursAt(bp, p) ==
  /\ p + Len(bp) <= Len(conversationText)
  /\ \A k \in 1..Len(bp) : conversationText[p + k] = bp[k]

\* C20: a stored chunk whose proposed end start + CHUNK_SIZE lies before the
\* end of the transcript ends right after the latest boundary marker that
\* begins after start + CHUNK_SIZE - 100 and not after the proposed end (of
\* several markers the one reaching furthest), and at the proposed end when
\* no marker begins there.
BreaksAfterLatestMarker ==
  \A i \in 1..Len(chunks) :
    LET c == chunks[i]
        proposed == c.start + CHUNK_SIZE
        window == (c.start + CHUNK_SIZE - 100 + 1)..proposed
        found == {pb \in window \X (1..Len(breakPoints)) :
                    occursAt(breakPoints[pb[2]], pb[1])}
        after == {pb[1] + Len(breakPoints[pb[2]]) : pb \in found}
    IN  proposed < Len(conversationText) =>
          IF after = {} THEN c.end = proposed
          ELSE c.end = CHOOSE e \in after : \A f \in after : f <= e

SlicesCoverTranscript ==
  /\ [][(last.op = "createChunks" /\ last'.op = "createChunks"
           /\ last'.loop.iterations > last.loop.iterations) =>
          /\ last'.loop.from < last'.loop.to
          /\ IF last.loop.iterations = 0 THEN last'.loop.from = 0
             ELSE last'.loop.from <= last.loop.to]_vars
  /\ []((last.op = "returned" /\ last.loop.iterations < maxIterations) =>
          last.loop.to = Len(conversationText))

\* a call that returned after several slices, some of them dropped
ReturnedWithSlicesDropped ==
  /\ last.op = "returned"
  /\ last.loop.iterations >= 3
  /\ Len(chunks) >= 1
  /\ Len(chunks) < last.loop.iterations
  /\ last.loop.to = Len(conversationText)

\* C22: in every state the i-th stored chunk (counting from 0) has id i, so
\* every id in a posting list, and every id of a returned chunk, is the
\* position of a chunk that is stored now.
IdsAreChunkPositions ==
  /\ \A i \in 1..Len(chunks) : chunks[i].id = i - 1
  /\ \A t \in DOMAIN keywordIndex :
       \A k \in 1..Len(keywordIndex[t]) :
         /\ keywordIndex[t][k] \in 0..(Len(chunks) - 1)
         /\ t \in DOMAIN chunks[keywordIndex[t][k] + 1].keywords
  /\ Searched =>
       \A r \in 1..Len(last.result) :
         /\ last.result[r].id \in 0..(Len(chunks) - 1)
         /\ chunks[last.result[r].id + 1] = last.result[r]

\* chunks stored on both sides of a dropped slice, and found by a search
FoundAcrossDroppedSlice ==
  /\ Searched /\ lastKeywords # {}
  /\ Len(last.result) >= 1
  /\ Len(chunks) >= 2
  /\ chunks[2].start > chunks[1].end

\* C23: while the flag is down the chunk sequence and both maps are empty; a
\* rebuild (indexConversation with a non-empty list) raises the flag, clear()
\* lowers it, and no other call changes it.
FlagFollowsRebuildAndClear ==
  /\ [](~isIndexed =>
          (chunks = <<>> /\ keywordIndex = <<>> /\ documentFrequency = <<>>))
  /\ [][isIndexed' =
          IF last'.op = "indexConversation" /\ last'.length > 0 THEN TRUE
          ELSE IF last'.op = "clear" THEN FALSE
          ELSE isIndexed]_vars

\* the engine right after clear() took down an index that held chunks
ClearedAfterRebuild ==
  /\ last.op = "clear"
  /\ conversationText # <<>>
  /\ ~isIndexed
  /\ chunks = <<>> /\ keywordIndex = <<>> /\ documentFrequency = <<>>

\* C24 as stated: a stored chunk starts at most CHUNK_OVERLAP characters
\* before the chunk stored before it ends, and its range is never contained
\* in the range of that chunk.
OverlapBoundedAndNotContained ==
  \A i \in 1..(Len(chunks) - 1) :
    /\ chunks[i].end - chunks[i + 1].start <= CHUNK_OVERLAP
    /\ ~(chunks[i].start <= chunks[i + 1].start /\ chunks[i + 1].end <= chunks[i].end)

\* C24: a stored chunk starts at most CHUNK_OVERLAP characters before the
\* chunk stored before it ends (its range may still lie within that chunk's).
OverlapAtMostChunkOverlap ==
  \A i \in 1..(Len(chunks) - 1) :
    chunks[i].end - chunks[i + 1].start <= CHUNK_OVERLAP

\* chunks that overlap by exactly CHUNK_OVERLAP, and chunks from the end of the
\* transcript whose range lies within the range of the chunk before
FullOverlapAndContainedChunk ==
  /\ IndexedMessages
  /\ \E i \in 1..(Len(chunks) - 1) :
       chunks[i].end - chunks[i + 1].start = CHUNK_OVERLAP
  /\ \E i \in 1..(Len(chunks) - 1) :
       /\ chunks[i].start < chunks[i + 1].start
       /\ chunks[i + 1].end = chunks[i].end

\* C25: no stored chunk spans more than CHUNK_SIZE characters of the
\* transcript, whether or not its end was moved to a boundary marker.
ChunkSpanAtMostChunkSize ==
  \A i \in 1..Len(chunks) : chunks[i].end - chunks[i].start <= CHUNK_SIZE

\* C26: a query term held by every chunk adds 0 to the score of each chunk;
\* so on an index of one chunk a search with a keyword in the query returns
\* no chunk and the context for such a query is empty.
TermInEveryChunkScoresZero ==
  /\ (Searched /\ lastKeywords # {}) =>
       /\ \A w \in lastKeywords :
            (w \in DOMAIN documentFrequency /\ documentFrequency[w] = Len(chunks)) =>
              \A i \in 1..Len(chunks) :
                rawScore(chunks[i], [v \in {w} |-> extractKeywords(last.query)[v]],
                         Len(chunks)) = 0
       /\ (Len(chunks) = 1) => last.result = <<>>
  /\ (AskedContext /\ lastKeywords # {} /\ Len(chunks) = 1) => last.context = <<>>

\* a search on an index of one chunk for a word that the chunk holds
SoleChunkHoldsTermNotFound ==
  /\ Searched
  /\ isIndexed /\ Len(chunks) = 1
  /\ lastKeywords \cap DOMAIN chunks[1].keywords # {}
  /\ last.topK >= 1
  /\ last.result = <<>>

(* ---------------------------------------------------------------------- *)
(* ChatApp.sendMessage and the index it queries                            *)
(* ---------------------------------------------------------------------- *)
\* the invocation c goes, in this step, from "Add user message" to the await
\* of fetch
asks(c) == calls[c].pc # "fetch" /\ calls'[c].pc = "fetch"

\* C28: whenever sendMessage calls getContextForQuery, the same step has first
\* rebuilt the index over this.messages without the question just added: the
\* last message is that question, the index held afterwards is the one
\* indexConversation builds from the messages before it, and the context handed
\* to callGroqAPI is what that index yields for the question
ContextFromFreshIndex ==
  [][\A c \in 1..MaxCalls :
       (asks(c) /\ calls'[c].queried) =>
         \E question \in {calls'[c].text} :
         \E list \in {messages'} :
         \E built \in {rebuild(SubSeq(list, 1, Len(list) - 1))} :
         \E context \in {contextIn([chunks |-> built.chunks,
                                    documentFrequency |-> built.documentFrequency,
                                    isIndexed |-> TRUE], question)} :
           /\ list[Len(list)] = [role |-> "user", content |-> question]
           /\ chunks' = built.chunks
           /\ keywordIndex' = built.keywordIndex
           /\ documentFrequency' = built.documentFrequency
           /\ isIndexed'
           /\ last'.op = "getContextForQuery"
           /\ last'.query = question
           /\ last'.context = context
           /\ calls'[c].ragContext = context]_vars

\* a question sent in the chat loaded from storage is on its way to the API
\* with a context that is not empty
ContextDrawnFromLoadedChat ==
  \E c \in 1..MaxCalls :
    /\ calls[c].pc = "fetch"
    /\ calls[c].queried
    /\ calls[c].ragContext # <<>>
    /\ currentChatId = 1
    /\ Len(messages) = Len(SavedChat.messages) + 1

(* ---------------------------------------------------------------------- *)
(* ChatApp.sendMessage: the isLoading guard, and where the reply goes      *)
(* ---------------------------------------------------------------------- *)
\* the invocation c passes the guard of sendMessage in this step
admitted(c) == calls[c].pc = "idle" /\ calls'[c].pc # "idle"

\* the invocation c completes in this step
completed(c) == calls[c].pc # "idle" /\ calls'[c].pc = "idle"

\* C29: an invocation of sendMessage passes the guard only while no other
\* invocation is between the guard and its finally block, and isLoading is
\* false once an invocation has completed
GuardAdmitsOneMessage ==
  [][\A c \in 1..MaxCalls :
       /\ admitted(c) => \A d \in 1..MaxCalls \ {c} : calls[d].pc = "idle"
       /\ completed(c) => ~isLoading']_vars

\* the invocation c has read the whole response and pushes the reply in this
\* step
replies(c) == calls[c].pc = "read" /\ calls[c].body = <<>> /\ calls'[c].pc # "read"

\* C30: when callGroqAPI pushes the assembled reply, this.messages is still the
\* list that holds the question where it was added, this.currentChatId is still
\* the chat the question was sent from, and the reply is saved under that chat
ReplyJoinsItsConversation ==
  [][\A c \in 1..MaxCalls :
       replies(c) =>
         \E reply \in {[role |-> "assistant", content |-> calls[c].fullResponse]} :
           /\ messages' = Append(messages, reply)
           /\ Len(messages) >= calls[c].at
           /\ messages[calls[c].at] = [role |-> "user", content |-> calls[c].text]
           /\ currentChatId = calls[c].chat
           /\ calls[c].chat # NoChat =>
                savedChats'[calls[c].chat].messages
                  = Append(savedChats[calls[c].chat].messages, reply)]_vars
====
